---------------------------- MODULE Spec2Model ----------------------------
(***************************************************************************)
(* A model of the Koi lexer (src/src/koi/lexer.py): the five generator     *)
(* passes composed by lexical_parse, and of the TokenWalker of             *)
(* src/src/koi/parser.py that reads a token stream.                        *)
(*                                                                         *)
(* A text is a sequence of one-character strings.  A Token is a record     *)
(* [kind, position, value]; position is <<row, col>>.  Python's None is    *)
(* the empty tuple for a token value (the kind fixes whether a value is    *)
(* None, a text or an int) and None/Some for the pass-local variables      *)
(* that are compared against None.                                         *)
(*                                                                         *)
(* Generators are lazy: a pass runs only when every pass downstream of it  *)
(* has nothing left to read.  One action handles one pulled token (one     *)
(* iteration of the pass's for loop), together with everything it yields.  *)
(***************************************************************************)
EXTENDS Integers, Sequences, FiniteSets, TLC

\* ------------------------------------------------------------ bounds
\* longest source text over CoreAlphabet / over FullAlphabet
MaxLen == 6
MaxLenFull == 3
\* longest source text given to break_line_pass alone
MaxLenLines == 5
\* longest source text given to string_literal_pass(break_line_pass(source))
MaxLenString == 5
\* indent_level_pass alone: most line and string tokens before eof, widest indent
MaxLines == 4
MaxIndent == 2
\* split_word_pass alone: longest line
MaxLenWord == 5
\* longest source text given to the first four passes composed
MaxLenLevels == 5
\* longest line text given to comment_pass alone
MaxLenComment == 3
\* TokenWalker: most upstream tokens, furthest lookahead
MaxTokens == 3
MaxAhead == 2

\* ------------------------------------------------------------ texts
LineBreaks == {"\n", "\r"}
Whitespace == {" ", "\t", "\n", "\r"}
\* the classes of the regular expressions: [a-zA-Z_], \d, [0-7], [\da-fA-F], [01]
Letters == {
    "a", "b", "c", "d", "e", "f", "g", "h", "i", "j", "k", "l", "m",
    "n", "o", "p", "q", "r", "s", "t", "u", "v", "w", "x", "y", "z",
    "A", "B", "C", "D", "E", "F", "G", "H", "I", "J", "K", "L", "M",
    "N", "O", "P", "Q", "R", "S", "T", "U", "V", "W", "X", "Y", "Z",
    "_"}
Digits == {"0", "1", "2", "3", "4", "5", "6", "7", "8", "9"}
OctDigits == {"0", "1", "2", "3", "4", "5", "6", "7"}
HexDigits == Digits \cup {"a", "b", "c", "d", "e", "f", "A", "B", "C", "D", "E", "F"}
BinDigits == {"0", "1"}

Texts(alphabet, n) == UNION {[1..k -> alphabet] : k \in 0..n}

\* s[a:b] and s[a:] with Python's zero-based offsets, 0 <= a
Slice(s, a, b) == SubSeq(s, a + 1, b)
From(s, a) == SubSeq(s, a + 1, Len(s))

\* str.lstrip(), str.rstrip(), str.strip()
RECURSIVE lstrip(_)
lstrip(s) ==
    IF s # <<>> /\ Head(s) \in Whitespace THEN lstrip(Tail(s)) ELSE s

RECURSIVE rstrip(_)
rstrip(s) ==
    IF s # <<>> /\ s[Len(s)] \in Whitespace
    THEN rstrip(SubSeq(s, 1, Len(s) - 1)) ELSE s

strip(s) == rstrip(lstrip(s))

\* str.find(ch): zero-based offset of the first ch, or -1
find(s, ch) ==
    IF \E i \in 1..Len(s) : s[i] = ch
    THEN (CHOOSE i \in 1..Len(s) : s[i] = ch /\ \A j \in 1..(i - 1) : s[j] # ch) - 1
    ELSE -1

\* str.startswith(word)
startswith(s, word) == Len(s) >= Len(word) /\ SubSeq(s, 1, Len(word)) = word

\* length of the first physical line of a non-empty text, terminator kept:
\* str.splitlines breaks after "\n", "\r" and the pair "\r\n"
FirstLineLen(s) ==
    IF \E i \in 1..Len(s) : s[i] \in LineBreaks
    THEN LET i == CHOOSE i \in 1..Len(s) :
                      s[i] \in LineBreaks /\ \A j \in 1..(i - 1) : s[j] \notin LineBreaks
         IN IF s[i] = "\r" /\ i < Len(s) /\ s[i + 1] = "\n" THEN i + 1 ELSE i
    ELSE Len(s)

\* source.splitlines(keepends=True)
RECURSIVE splitlines(_)
splitlines(s) ==
    IF s = <<>> THEN <<>>
    ELSE LET n == FirstLineLen(s)
         IN <<SubSeq(s, 1, n)>> \o splitlines(From(s, n))

\* ------------------------------------------------------------ tokens
None == <<>>
Some(v) == <<v>>

Token(kind, position, value) ==
    [kind |-> kind, position |-> position, value |-> value]

\* an exception leaving a generator
NoErr == [type |-> "None", position |-> <<>>]
LexError(position) == [type |-> "LexError", position |-> position]
IndexError == [type |-> "IndexError", position |-> <<>>]

\* ------------------------------------------------------------ state
VARIABLES
    source,           \* the text given to break_line_pass
    input,            \* the token list given to the first pass when it is not break_line_pass
    taken,            \* how many tokens of input the first pass has pulled
    lo, hi,           \* the passes composed: lo..hi of Passes
    q,                \* q[k]: tokens pass k has yielded and pass k+1 has not pulled; q[hi]: the output
    st,               \* st[k]: "idle", "running", "returned" or "raised"
    exc,              \* exc[k]: the exception that left pass k
    row,              \* break_line_pass: rows yielded so far
    accumulated,      \* string_literal_pass
    string_position,  \* string_literal_pass
    close_quote,      \* string_literal_pass
    levels,           \* indent_level_pass
    is_first,         \* indent_level_pass
    buffer,           \* TokenWalker._buffer; TokenWalker._token_gen is input read up to taken
    call,             \* the last call made on the walker and its argument
    result,           \* what that call returned or raised
    discarded         \* history: how many tokens forward() has popped

wvars == <<buffer, call, result, discarded>>

vars == <<source, input, taken, lo, hi, q, st, exc, row,
          accumulated, string_position, close_quote, levels, is_first, wvars>>

Passes == <<"break_line_pass", "string_literal_pass", "comment_pass",
            "indent_level_pass", "split_word_pass">>
BreakLine == 1
StringLiteral == 2
Comment == 3
IndentLevel == 4
SplitWord == 5

\* the tokens the consumer of the composition has received
out == q[hi]

\* the state of the generators before the first pull
Start(l, h, src, inp) ==
    /\ source = src
    /\ input = inp
    /\ taken = 0
    /\ lo = l
    /\ hi = h
    /\ q = [k \in 1..5 |-> <<>>]
    /\ st = [k \in 1..5 |-> IF k \in l..h THEN "running" ELSE "idle"]
    /\ exc = [k \in 1..5 |-> NoErr]
    /\ row = 0
    /\ accumulated = None
    /\ string_position = None
    /\ close_quote = None
    /\ levels = <<0>>
    /\ is_first = TRUE
    /\ buffer = <<>>
    /\ call = [op |-> "none", arg |-> 0, expect_kind |-> "None"]
    /\ result = [type |-> "None", token |-> [kind |-> "none", position |-> <<>>, value |-> <<>>]]
    /\ discarded = 0

\* ------------------------------------------------------------ laziness
\* pass k is asked for a token: every pass after it is suspended in a pull
\* with nothing left to read
Demand(k) == \A j \in (k + 1)..hi : st[j] = "running" /\ q[j - 1] = <<>>

\* what pass k iterates over
Up(k) == IF k = lo THEN From(input, taken) ELSE q[k - 1]
UpSt(k) == IF k = lo THEN "returned" ELSE st[k - 1]
UpExc(k) == IF k = lo THEN NoErr ELSE exc[k - 1]

\* pass k can take its next step
Ready(k) ==
    /\ k \in lo..hi
    /\ st[k] = "running"
    /\ Demand(k)
    /\ ~(k > BreakLine /\ Up(k) = <<>> /\ UpSt(k) = "running")

\* pass k has pulled the head of its upstream and yields toks, then goes on
\* (status "running"), returns or raises e
Pulled(k, toks, status, e) ==
    /\ IF k = lo
       THEN /\ taken' = taken + 1
            /\ q' = [q EXCEPT ![k] = @ \o toks]
       ELSE /\ taken' = taken
            /\ q' = [q EXCEPT ![k - 1] = Tail(@), ![k] = @ \o toks]
    /\ st' = [st EXCEPT ![k] = status]
    /\ exc' = [exc EXCEPT ![k] = e]

\* the upstream of pass k is exhausted: the for loop ends and the generator
\* returns, or the exception of the upstream passes through it
Exhausted(k) ==
    /\ Up(k) = <<>>
    /\ st' = [st EXCEPT ![k] = UpSt(k)]
    /\ exc' = [exc EXCEPT ![k] = UpExc(k)]
    /\ UNCHANGED <<taken, q>>

\* ------------------------------------------------------------ break_line_pass
\* the position of the eof token, lines being the non-empty list of lines
eof_position(src, lines) ==
    IF src[Len(src)] # "\n"
    THEN <<Len(lines) - 1, Len(lines[Len(lines)])>>
    ELSE <<Len(lines), 0>>

\* one iteration of the for loop, or the code after it; source[-1] of an
\* empty source raises IndexError
break_line_pass ==
    /\ Ready(BreakLine)
    /\ LET lines == splitlines(source)
       IN IF row < Len(lines)
          THEN /\ q' = [q EXCEPT ![BreakLine] = @ \o <<Token("line", <<row, 0>>, lines[row + 1])>>]
               /\ row' = row + 1
               /\ UNCHANGED <<st, exc>>
          ELSE IF source = <<>>
          THEN /\ st' = [st EXCEPT ![BreakLine] = "raised"]
               /\ exc' = [exc EXCEPT ![BreakLine] = IndexError]
               /\ UNCHANGED <<q, row>>
          ELSE /\ q' = [q EXCEPT ![BreakLine] = @ \o <<Token("eof", eof_position(source, lines), None)>>]
               /\ st' = [st EXCEPT ![BreakLine] = "returned"]
               /\ UNCHANGED <<exc, row>>
    /\ UNCHANGED <<source, input, taken, lo, hi, accumulated, string_position,
                   close_quote, levels, is_first, wvars>>

\* ------------------------------------------------------------ string_literal_pass
AssertionError == [type |-> "AssertionError", position |-> <<>>]

\* re.search(rf"[^\\]?({close_quote})", line).start(1), or -1 without a match:
\* from the leftmost start i, first one character other than a backslash
\* followed by the quote, then (the optional character left out) the quote at i
RECURSIVE search_close_quote(_, _, _)
search_close_quote(line, quote, i) ==
    IF i >= Len(line) THEN -1
    ELSE IF line[i + 1] # "\\" /\ i + 1 < Len(line) /\ line[i + 2] = quote THEN i + 1
    ELSE IF line[i + 1] = quote THEN i
    ELSE search_close_quote(line, quote, i + 1)

\* a slip: the column is not moved past the string's tail and closing quote
after_close_quote_unmoved(col_offset, offset) == col_offset

\* col_offset += offset + len(close_quote)
after_close_quote(col_offset, offset) == col_offset + offset + 1

\* a slip: the position of the string taken at the start of the line fragment
string_start_at_fragment(r, col_offset, offset) == <<r, col_offset>>

\* col_offset += offset + 1; string_position = row, col_offset
string_start(r, col_offset, offset) == <<r, col_offset + offset + 1>>

\* `if accumulated:` is false for None and for the empty text
Truthy(acc) == acc # None /\ acc[1] # <<>>

\* the while loop over one line token at (r, col_offset): the tokens it
\* yields (appended to toks) and the three variables after it
RECURSIVE string_literal_line(_, _, _, _, _, _, _)
string_literal_line(line, r, col_offset, acc, spos, cq, toks) ==
    IF line = <<>>
    THEN [accumulated |-> acc, string_position |-> spos, close_quote |-> cq, toks |-> toks]
    ELSE IF acc = None
    THEN LET offset == find(line, "\"")
         IN IF offset < 0
            THEN [accumulated |-> acc, string_position |-> spos, close_quote |-> cq,
                  toks |-> toks \o <<Token("line", <<r, col_offset>>, line)>>]
            ELSE LET pre_string == Slice(line, 0, offset)
                 IN string_literal_line(
                        From(line, offset + 1), r, col_offset + offset + 1,
                        Some(<<>>), Some(string_start(r, col_offset, offset)), Some("\""),
                        IF pre_string # <<>>
                        THEN toks \o <<Token("line", <<r, col_offset>>, pre_string)>>
                        ELSE toks)
    ELSE LET offset == search_close_quote(line, cq[1], 0)
         IN IF offset < 0
            THEN [accumulated |-> Some(acc[1] \o line), string_position |-> spos,
                  close_quote |-> cq, toks |-> toks]
            ELSE string_literal_line(
                     From(line, offset + 1), r, after_close_quote(col_offset, offset),
                     None, None, None,
                     toks \o <<Token("string", spos[1], acc[1] \o Slice(line, 0, offset))>>)

string_literal_pass ==
    /\ Ready(StringLiteral)
    /\ IF Up(StringLiteral) = <<>>
       THEN /\ Exhausted(StringLiteral)
            /\ UNCHANGED <<accumulated, string_position, close_quote>>
       ELSE LET token == Head(Up(StringLiteral))
            IN IF token.kind = "eof"
               THEN /\ IF Truthy(accumulated)
                       THEN Pulled(StringLiteral, <<>>, "raised", LexError(token.position))
                       ELSE Pulled(StringLiteral, <<token>>, "returned", NoErr)
                    /\ UNCHANGED <<accumulated, string_position, close_quote>>
               ELSE IF token.kind # "line"
               THEN /\ Pulled(StringLiteral, <<>>, "raised", AssertionError)
                    /\ UNCHANGED <<accumulated, string_position, close_quote>>
               ELSE LET r == string_literal_line(
                                 token.value, token.position[1], token.position[2],
                                 accumulated, string_position, close_quote, <<>>)
                    IN /\ Pulled(StringLiteral, r.toks, "running", NoErr)
                       /\ accumulated' = r.accumulated
                       /\ string_position' = r.string_position
                       /\ close_quote' = r.close_quote
    /\ UNCHANGED <<source, input, lo, hi, row, levels, is_first, wvars>>

\* ------------------------------------------------------------ comment_pass
pure_line_untrimmed(value) ==
    LET offset == find(value, ";")
    IN IF offset < 0 THEN value ELSE Slice(value, 0, offset)

\* token.value.split(";")[0].rstrip()
pure_line(value) ==
    LET offset == find(value, ";")
    IN rstrip(IF offset < 0 THEN value ELSE Slice(value, 0, offset))

comment_pass ==
    /\ Ready(Comment)
    /\ IF Up(Comment) = <<>>
       THEN Exhausted(Comment)
       ELSE LET token == Head(Up(Comment))
            IN IF token.kind # "line"
               THEN Pulled(Comment, <<token>>, "running", NoErr)
               ELSE IF strip(pure_line(token.value)) # <<>>
               THEN Pulled(Comment, <<[token EXCEPT !.value = pure_line(token.value)]>>,
                           "running", NoErr)
               ELSE Pulled(Comment, <<>>, "running", NoErr)
    /\ UNCHANGED <<source, input, lo, hi, row, accumulated, string_position,
                   close_quote, levels, is_first, wvars>>

\* ------------------------------------------------------------ indent_level_pass
\* len(token.value) - len(token.value.lstrip())
token_level(value) == Len(value) - Len(lstrip(value))

\* a slip: the position of the line token, the indent not added
level_position_unshifted(token, level) == token.position

\* row, col + token_level
level_position(token, level) == <<token.position[1], token.position[2] + level>>

\* a slip: a close_level for every level, the bottom 0 included
indent_eof_every_level(lvls, token) ==
    [i \in 1..Len(lvls) |-> Token("close_level", token.position, None)] \o <<token>>

\* at eof: one close_level per non-zero level, then the eof token
indent_eof(lvls, token) ==
    [i \in 1..Len(SelectSeq(lvls, LAMBDA l : l # 0)) |->
        Token("close_level", token.position, None)] \o <<token>>

\* a slip: one levels.pop() whatever the level
pop_levels_once(lvls, level) == SubSeq(lvls, 1, Len(lvls) - 1)

\* the levels left by `while levels[-1] != token_level: levels.pop()`
RECURSIVE pop_levels(_, _)
pop_levels(lvls, level) ==
    IF lvls[Len(lvls)] # level THEN pop_levels(SubSeq(lvls, 1, Len(lvls) - 1), level)
    ELSE lvls

\* the position the initial-indent error carries
initial_indent_position(token, level) == token.position

\* the body of the for loop for a line token: what it yields, the levels and
\* is_first after it, and the exception it raises
indent_line(token, lvls, first) ==
    LET level == token_level(token.value)
        rest == lstrip(token.value)
        top == lvls[Len(lvls)]
        position == level_position(token, level)
        line == Token("line", position, rest)
    IN IF first /\ level # 0
       THEN [toks |-> <<>>, levels |-> lvls, is_first |-> first,
             err |-> LexError(initial_indent_position(token, level))]
       ELSE IF level > top
       THEN [toks |-> <<Token("open_level", position, None), line>>,
             levels |-> Append(lvls, level), is_first |-> FALSE, err |-> NoErr]
       ELSE IF level < top
       THEN IF \A i \in 1..Len(lvls) : lvls[i] # level
            THEN [toks |-> <<>>, levels |-> lvls, is_first |-> FALSE,
                  err |-> LexError(position)]
            ELSE LET popped == pop_levels(lvls, level)
                 IN [toks |-> [i \in 1..(Len(lvls) - Len(popped)) |->
                                  Token("close_level", position, None)] \o <<line>>,
                     levels |-> popped, is_first |-> FALSE, err |-> NoErr]
       ELSE [toks |-> <<line>>, levels |-> lvls, is_first |-> FALSE, err |-> NoErr]

indent_level_pass ==
    /\ Ready(IndentLevel)
    /\ IF Up(IndentLevel) = <<>>
       THEN /\ Exhausted(IndentLevel)
            /\ UNCHANGED <<levels, is_first>>
       ELSE LET token == Head(Up(IndentLevel))
            IN IF token.kind = "eof"
               THEN /\ Pulled(IndentLevel, indent_eof(levels, token), "returned", NoErr)
                    /\ UNCHANGED <<levels, is_first>>
               ELSE IF token.kind # "line"
               THEN /\ Pulled(IndentLevel, <<token>>, "running", NoErr)
                    /\ UNCHANGED <<levels, is_first>>
               ELSE LET r == indent_line(token, levels, is_first)
                    IN /\ Pulled(IndentLevel, r.toks,
                                 IF r.err = NoErr THEN "running" ELSE "raised", r.err)
                       /\ levels' = r.levels
                       /\ is_first' = r.is_first
    /\ UNCHANGED <<source, input, lo, hi, row, accumulated, string_position,
                   close_quote, wvars>>

\* ------------------------------------------------------------ split_word_pass
token_table1 ==
    << [word |-> <<"r", "e", "t", "u", "r", "n">>, kind |-> "return"],
       [word |-> <<"i", "f">>, kind |-> "if"] >>
token_table2 ==
    << [word |-> <<"=", "=">>, kind |-> "equal"],
       [word |-> <<"-", ">">>, kind |-> "arrow"] >>
token_table3 ==
    << [word |-> <<"=">>, kind |-> "assign"],
       [word |-> <<"+">>, kind |-> "plus"],
       [word |-> <<",">>, kind |-> "comma"] >>

\* the first entry of a table that line starts with, or 0
first_prefix(table, line) ==
    IF \E i \in 1..Len(table) : startswith(line, table[i].word)
    THEN CHOOSE i \in 1..Len(table) :
             /\ startswith(line, table[i].word)
             /\ \A j \in 1..(i - 1) : ~startswith(line, table[j].word)
    ELSE 0

\* how many leading characters of s are in class
RECURSIVE leading(_, _)
leading(s, class) ==
    IF s # <<>> /\ Head(s) \in class THEN 1 + leading(Tail(s), class) ELSE 0

\* len(re.match(r"[a-zA-Z_]\w*", line)[0]), or -1
name_match(line) ==
    IF Head(line) \in Letters THEN 1 + leading(Tail(line), Letters \cup Digits) ELSE -1

\* the alternatives of r"[1-9]\d*|0|0[oO][0-7]+|0[xX][\da-fA-F]+|0[bB][01]+",
\* each the length it matches at the start of line, or -1
prefixed_match(line, marks, class) ==
    IF Len(line) >= 3 /\ line[1] = "0" /\ line[2] \in marks /\ line[3] \in class
    THEN 2 + leading(From(line, 2), class) ELSE -1

int_alternatives(line) ==
    << IF Head(line) \in Digits \ {"0"} THEN 1 + leading(Tail(line), Digits) ELSE -1,
       IF Head(line) = "0" THEN 1 ELSE -1,
       prefixed_match(line, {"o", "O"}, OctDigits),
       prefixed_match(line, {"x", "X"}, HexDigits),
       prefixed_match(line, {"b", "B"}, BinDigits) >>

\* the alternation takes the first alternative that matches
int_match(line) ==
    LET alts == int_alternatives(line)
    IN IF \E i \in 1..Len(alts) : alts[i] >= 0
       THEN alts[CHOOSE i \in 1..Len(alts) :
                     alts[i] >= 0 /\ \A j \in 1..(i - 1) : alts[j] < 0]
       ELSE -1

HexLower == <<"0", "1", "2", "3", "4", "5", "6", "7", "8", "9", "a", "b", "c", "d", "e", "f">>
HexUpper == <<"0", "1", "2", "3", "4", "5", "6", "7", "8", "9", "A", "B", "C", "D", "E", "F">>
digit_value(c) == (CHOOSE i \in 1..Len(HexLower) : HexLower[i] = c \/ HexUpper[i] = c) - 1

RECURSIVE to_int(_, _)
to_int(digits, base) ==
    IF digits = <<>> THEN 0
    ELSE to_int(SubSeq(digits, 1, Len(digits) - 1), base) * base
             + digit_value(digits[Len(digits)])

\* int(text, base=0) of a text the regular expression matched
int_base0(text) ==
    IF Len(text) >= 2 /\ text[1] = "0" /\ text[2] \in {"o", "O"} THEN to_int(From(text, 2), 8)
    ELSE IF Len(text) >= 2 /\ text[1] = "0" /\ text[2] \in {"x", "X"} THEN to_int(From(text, 2), 16)
    ELSE IF Len(text) >= 2 /\ text[1] = "0" /\ text[2] \in {"b", "B"} THEN to_int(From(text, 2), 2)
    ELSE to_int(text, 10)

\* the rules tried in order at the start of a non-empty line: the kind and
\* value of the token and token_length, which stays -1 when no rule matches
match_word(line) ==
    IF first_prefix(token_table1, line) > 0
    THEN LET e == token_table1[first_prefix(token_table1, line)]
         IN [kind |-> e.kind, value |-> None, token_length |-> Len(e.word)]
    ELSE IF first_prefix(token_table2, line) > 0
    THEN LET e == token_table2[first_prefix(token_table2, line)]
         IN [kind |-> e.kind, value |-> None, token_length |-> Len(e.word)]
    ELSE IF first_prefix(token_table3, <<Head(line)>>) > 0
    THEN LET e == token_table3[first_prefix(token_table3, <<Head(line)>>)]
         IN [kind |-> e.kind, value |-> None, token_length |-> 1]
    ELSE IF name_match(line) >= 0
    THEN [kind |-> "name", value |-> Slice(line, 0, name_match(line)),
          token_length |-> name_match(line)]
    ELSE IF int_match(line) >= 0
    THEN [kind |-> "int", value |-> int_base0(Slice(line, 0, int_match(line))),
          token_length |-> int_match(line)]
    ELSE [kind |-> "none", value |-> None, token_length |-> -1]

\* col_offset += token_length
next_col_offset(col_offset, line, token_length) == col_offset + token_length

\* the while loop over one line: the tokens it yields (appended to toks) and
\* the exception it raises
RECURSIVE split_word_line(_, _, _, _)
split_word_line(line, r, col_offset, toks) ==
    IF line = <<>> THEN [toks |-> toks, err |-> NoErr]
    ELSE LET m == match_word(line)
         IN IF m.token_length < 0
            THEN [toks |-> toks, err |-> LexError(<<r, col_offset>>)]
            ELSE split_word_line(
                     lstrip(From(line, m.token_length)), r,
                     next_col_offset(col_offset, line, m.token_length),
                     Append(toks, Token(m.kind, <<r, col_offset>>, m.value)))

split_word_pass ==
    /\ Ready(SplitWord)
    /\ IF Up(SplitWord) = <<>>
       THEN Exhausted(SplitWord)
       ELSE LET token == Head(Up(SplitWord))
            IN IF token.kind # "line"
               THEN Pulled(SplitWord, <<token>>, "running", NoErr)
               ELSE LET r == split_word_line(strip(token.value), token.position[1],
                                             token.position[2], <<>>)
                    IN Pulled(SplitWord, r.toks,
                              IF r.err = NoErr THEN "running" ELSE "raised", r.err)
    /\ UNCHANGED <<source, input, lo, hi, row, accumulated, string_position,
                   close_quote, levels, is_first, wvars>>

\* ------------------------------------------------------------ lexical_parse
\* the composition of the five passes
lexical_parse ==
    \/ break_line_pass
    \/ string_literal_pass
    \/ comment_pass
    \/ indent_level_pass
    \/ split_word_pass

\* ------------------------------------------------------------ TokenWalker
\* the variables of the lexer passes, which the walker of a token list leaves alone
lexer_vars == <<source, input, lo, hi, q, st, exc, row,
                accumulated, string_position, close_quote, levels, is_first>>

NoToken == Token("none", <<>>, None)
WalkerKinds == {"name", "assign", "eof"}
\* expect_kind=None
NoKind == "None"
Returned(token) == [type |-> "Token", token |-> token]
ReturnedNone == [type |-> "None", token |-> NoToken]
ParseError(token) == [type |-> "ParseError", token |-> token]
StopIteration == [type |-> "StopIteration", token |-> NoToken]

\* while len(self._buffer) <= position: self._buffer.append(next(self._token_gen))
\* the buffer and the number of tokens read when the loop ends, and whether
\* next() ended it with StopIteration
buffer_short_eager(buf, position) == Len(buf) <= position + 1

\* len(self._buffer) <= position
buffer_short(buf, position) == Len(buf) <= position

RECURSIVE fill_buffer(_, _, _)
fill_buffer(buf, read, position) ==
    IF ~buffer_short(buf, position) THEN [buffer |-> buf, taken |-> read, stop |-> FALSE]
    ELSE IF read >= Len(input) THEN [buffer |-> buf, taken |-> read, stop |-> TRUE]
    ELSE fill_buffer(Append(buf, input[read + 1]), read + 1, position)

pop_right(buf) == SubSeq(buf, 1, Len(buf) - 1)

\* self._buffer.popleft()
popleft(buf) == Tail(buf)

unexpected_even_if_none(expect_kind, token) == token.kind # expect_kind

\* expect_kind and token.kind != expect_kind
unexpected(expect_kind, token) == expect_kind # NoKind /\ token.kind # expect_kind

\* TokenWalker.lookahead(position)
lookahead ==
    \E position \in 0..MaxAhead :
        LET f == fill_buffer(buffer, taken, position)
        IN /\ buffer' = f.buffer
           /\ taken' = f.taken
           /\ call' = [op |-> "lookahead", arg |-> position, expect_kind |-> NoKind]
           /\ result' = IF f.stop THEN StopIteration ELSE Returned(f.buffer[position + 1])
           /\ UNCHANGED <<discarded, lexer_vars>>

\* TokenWalker.forward(expect_kind)
forward ==
    \E expect_kind \in WalkerKinds \cup {NoKind} :
        LET f == fill_buffer(buffer, taken, 0)
        IN /\ taken' = f.taken
           /\ call' = [op |-> "forward", arg |-> 0, expect_kind |-> expect_kind]
           /\ IF f.stop
              THEN /\ result' = StopIteration
                   /\ buffer' = f.buffer
                   /\ UNCHANGED discarded
              ELSE IF unexpected(expect_kind, f.buffer[1])
              THEN /\ result' = ParseError(f.buffer[1])
                   /\ buffer' = f.buffer
                   /\ UNCHANGED discarded
              ELSE /\ result' = ReturnedNone
                   /\ buffer' = popleft(f.buffer)
                   /\ discarded' = discarded + 1
           /\ UNCHANGED lexer_vars

\* ------------------------------------------------------------ specifications
\* TokenWalker(iter(tokens)): the tokens are at (0, 0), (0, 1), ... and no
\* lexer pass runs
WalkerTokens ==
    UNION {{[i \in 1..n |-> Token(kinds[i], <<0, i - 1>>, None)] :
            kinds \in [1..n -> WalkerKinds]} : n \in 0..MaxTokens}

InitWalker ==
    \E tokens \in WalkerTokens : Start(1, 0, <<>>, tokens)

SpecWalker == InitWalker /\ [][lookahead \/ forward]_vars

LinesAlphabet == {"a", "\n", "\r"}

InitBreakLine ==
    \E src \in Texts(LinesAlphabet, MaxLenLines) : Start(BreakLine, BreakLine, src, <<>>)

SpecBreakLine == InitBreakLine /\ [][break_line_pass]_vars

\* string_literal_pass(break_line_pass(source))
StringAlphabet == {"a", "\"", "\\", "\n"}

InitString ==
    \E src \in Texts(StringAlphabet, MaxLenString) :
        Start(BreakLine, StringLiteral, src, <<>>)

SpecString == InitString /\ [][break_line_pass \/ string_literal_pass]_vars

\* indent_level_pass(lines): line tokens "a" indented by w spaces and string
\* tokens (w = -1), one per row, all at column c, then eof
Spaces(w) == [i \in 1..w |-> " "]

IndentToken(i, w, c) ==
    IF w < 0
    THEN Token("string", <<i - 1, c>>, <<"s">>)
    ELSE Token("line", <<i - 1, c>>, Spaces(w) \o <<"a">>)

IndentInputs ==
    UNION {
        {[i \in 1..(n + 1) |->
             IF i <= n THEN IndentToken(i, f[i], c) ELSE Token("eof", <<n, 0>>, None)] :
         f \in [1..n -> -1..MaxIndent], c \in {0, 1}} : n \in 0..MaxLines}

InitIndent ==
    \E inp \in IndentInputs : Start(IndentLevel, IndentLevel, <<>>, inp)

SpecIndent == InitIndent /\ [][indent_level_pass]_vars

\* split_word_pass(lines): one line token at column c, then eof
WordAlphabet == {"0", "1", "o", "x", "b", " ", "="}

InitSplitWord ==
    \E text \in Texts(WordAlphabet, MaxLenWord), c \in {0, 3} :
        Start(SplitWord, SplitWord, <<>>,
              <<Token("line", <<0, c>>, text), Token("eof", <<1, 0>>, None)>>)

SpecSplitWord == InitSplitWord /\ [][split_word_pass]_vars

\* comment_pass(tokens): a line token, a string token holding the comment
\* marker, a second line token, then eof
CommentAlphabet == {"a", " ", ";", "\n"}

InitComment ==
    \E text1 \in Texts(CommentAlphabet, MaxLenComment),
       text2 \in Texts(CommentAlphabet, MaxLenComment) :
        Start(Comment, Comment, <<>>,
              <<Token("line", <<0, 0>>, text1),
                Token("string", <<0, Len(text1) + 1>>, <<"s", ";", " ">>),
                Token("line", <<1, 0>>, text2),
                Token("eof", <<2, 0>>, None)>>)

SpecComment == InitComment /\ [][comment_pass]_vars

\* split_word_pass(lines) on lines holding a character no word rule matches
ErrorAlphabet == {"a", " ", "=", "?"}

InitWordError ==
    \E text \in Texts(ErrorAlphabet, MaxLenWord), c \in {0, 3} :
        Start(SplitWord, SplitWord, <<>>,
              <<Token("line", <<0, c>>, text), Token("eof", <<1, 0>>, None)>>)

SpecWordError == InitWordError /\ [][split_word_pass]_vars

\* indent_level_pass(comment_pass(string_literal_pass(break_line_pass(source))))
LevelsAlphabet == {"a", " ", "\"", "\n", ";"}

InitLevels ==
    \E src \in Texts(LevelsAlphabet, MaxLenLevels) :
        Start(BreakLine, IndentLevel, src, <<>>)

SpecLevels ==
    InitLevels /\ [][\/ break_line_pass
                     \/ string_literal_pass
                     \/ comment_pass
                     \/ indent_level_pass]_vars

\* lexical_parse(source)
CoreAlphabet == {"a", " ", "\"", "\n"}
FullAlphabet == CoreAlphabet \cup {";", "\\", "\r", "="}

Init ==
    \E src \in Texts(CoreAlphabet, MaxLen) \cup Texts(FullAlphabet, MaxLenFull) :
        Start(BreakLine, SplitWord, src, <<>>)

Next == lexical_parse

Spec == Init /\ [][Next]_vars


\* ------------------------------------------------------------ claims
\* the last token of a non-empty token list
Last(toks) == toks[Len(toks)]
Count(toks, kind) == Len(SelectSeq(toks, LAMBDA t : t.kind = kind))
Structural == {"open_level", "close_level", "eof"}
\* the composition has stopped: its last pass returned or raised
Finished == st[hi] # "running"
PosLess(a, b) == a[1] < b[1] \/ (a[1] = b[1] /\ a[2] < b[2])

\* C1: for every source text, the empty one included, on which lexical_parse
\* raises no lexical error, the token sequence is finite, ends with eof, and
\* holds eof exactly once.
C1_EndsWithOneEof ==
    (lo = BreakLine /\ hi = SplitWord /\ Finished /\ exc[hi].type # "LexError") =>
        /\ out # <<>>
        /\ Last(out).kind = "eof"
        /\ Count(out, "eof") = 1

\* the columns at which the words of text start, text starting at column off:
\* every matched word and every skipped whitespace character counts
RECURSIVE word_columns(_, _)
word_columns(text, off) ==
    LET ws == leading(text, Whitespace)
        rest == From(text, ws)
    IN IF rest = <<>> \/ match_word(rest).token_length < 0 THEN <<>>
       ELSE <<off + ws>> \o
            word_columns(From(rest, match_word(rest).token_length),
                         off + ws + match_word(rest).token_length)

\* C2: every token split_word_pass emits for a line token at (row, c) carries
\* the column of its first character in the source: c plus the number of
\* characters, words and whitespace, before the word in the line.  Stated
\* for the lines indent_level_pass hands over, which neither start nor end
\* with whitespace.
C2_WordColumns ==
    (lo = SplitWord /\ taken >= 1 /\ strip(input[1].value) = input[1].value) =>
        LET line == input[1]
            cols == word_columns(line.value, line.position[2])
        IN \A i \in 1..Len(out) :
               out[i].kind # "eof" =>
                   i <= Len(cols) /\ out[i].position = <<line.position[1], cols[i]>>

\* the integer literals of the grammar: decimal without leading zero, 0,
\* 0o/0O octal, 0x/0X hexadecimal, 0b/0B binary
AllIn(text, class) == \A i \in 1..Len(text) : text[i] \in class
IsPrefixed(text, marks, class) ==
    Len(text) >= 3 /\ text[1] = "0" /\ text[2] \in marks /\ AllIn(From(text, 2), class)
IsIntLiteral(text) ==
    \/ text = <<"0">>
    \/ text # <<>> /\ text[1] \in Digits \ {"0"} /\ AllIn(text, Digits)
    \/ IsPrefixed(text, {"o", "O"}, OctDigits)
    \/ IsPrefixed(text, {"x", "X"}, HexDigits)
    \/ IsPrefixed(text, {"b", "B"}, BinDigits)

\* C3: an integer literal standing alone as a line token yields exactly one
\* token, of kind int, whose value is the literal read in its own radix.
C3_IntLiteral ==
    (lo = SplitWord /\ taken >= 1 /\ IsIntLiteral(input[1].value)) =>
        LET words == SelectSeq(out, LAMBDA t : t.kind # "eof")
        IN /\ exc[hi] = NoErr
           /\ Len(words) = 1
           /\ words[1].kind = "int"
           /\ words[1].position = input[1].position
           /\ words[1].value = int_base0(input[1].value)

\* C4: when a quote opens a string that is not closed before the end of
\* input, whatever follows the quote (nothing included), string_literal_pass
\* raises LexError at the position of the eof token and never yields eof.
\* A source with exactly one quote character is such a source.
C4_UnclosedStringRaises ==
    (lo = BreakLine /\ hi = StringLiteral /\ Finished
        /\ Cardinality({i \in 1..Len(source) : source[i] = "\""}) = 1) =>
        /\ st[hi] = "raised"
        /\ exc[hi] = LexError(eof_position(source, splitlines(source)))
        /\ Count(out, "eof") = 0

\* C5: in an open string a quote right after a backslash does not close the
\* string: a string token ends at the first quote not right after a
\* backslash, so its value neither ends with a backslash nor holds a quote
\* that is not right after a backslash.
C5_EscapedQuoteStaysInside ==
    (lo = BreakLine /\ hi = StringLiteral) =>
        \A i \in 1..Len(out) :
            out[i].kind = "string" =>
                LET v == out[i].value
                IN /\ v # <<>> => v[Len(v)] # "\\"
                   /\ \A j \in 1..Len(v) : v[j] = "\"" => (j > 1 /\ v[j - 1] = "\\")

\* C6: when indent_level_pass gets through line tokens ending in eof without
\* raising, it has emitted as many close_level as open_level tokens, and no
\* prefix of its output holds more close_level than open_level tokens.
C6_LevelsBalanced ==
    lo = IndentLevel =>
        /\ \A n \in 0..Len(out) :
               Count(SubSeq(out, 1, n), "close_level") <= Count(SubSeq(out, 1, n), "open_level")
        /\ (st[hi] = "returned" /\ out # <<>> /\ Last(out).kind = "eof") =>
               Count(out, "open_level") = Count(out, "close_level")

\* two nested levels were opened, one was closed by a dedent and the other at eof
C6_Witness ==
    /\ lo = IndentLevel
    /\ st[hi] = "returned"
    /\ Count(out, "open_level") = 2
    /\ \E i \in 1..(Len(out) - 1) : out[i].kind = "close_level" /\ out[i + 1].kind = "line"
    /\ out[Len(out) - 1].kind = "close_level"

\* the first line token of the input of indent_level_pass: its index, or 0
FirstLineIndex ==
    IF \E i \in 1..Len(input) : input[i].kind = "line"
    THEN CHOOSE i \in 1..Len(input) :
             input[i].kind = "line" /\ \A j \in 1..(i - 1) : input[j].kind # "line"
    ELSE 0

\* C7: when the first line token indent_level_pass sees is indented by
\* w > 0, the pass raises LexError at the line's first non-whitespace
\* character, (row, col + w), and has emitted no token.
C7_InitialIndentPosition ==
    (lo = IndentLevel /\ FirstLineIndex > 0 /\ taken >= FirstLineIndex
        /\ token_level(input[FirstLineIndex].value) > 0) =>
        LET token == input[FirstLineIndex]
        IN /\ st[hi] = "raised"
           /\ exc[hi] = LexError(<<token.position[1],
                                   token.position[2] + token_level(token.value)>>)
           /\ out = <<>>

\* C8: a line token whose indent w is below the top of the level stack and
\* not on the stack makes indent_level_pass raise LexError at (row, col + w),
\* with no close_level emitted for the line and the stack not popped.
C8_DedentMismatch ==
    [][(/\ Ready(IndentLevel)
        /\ Up(IndentLevel) # <<>>
        /\ Head(Up(IndentLevel)).kind = "line"
        /\ token_level(Head(Up(IndentLevel)).value) < levels[Len(levels)]
        /\ \A i \in 1..Len(levels) :
               levels[i] # token_level(Head(Up(IndentLevel)).value))
       => LET token == Head(Up(IndentLevel))
          IN /\ st'[IndentLevel] = "raised"
             /\ exc'[IndentLevel] =
                    LexError(<<token.position[1],
                               token.position[2] + token_level(token.value)>>)
             /\ q'[IndentLevel] = q[IndentLevel]
             /\ levels' = levels]_vars

\* the pass has raised with a level open: not the initial-indent error
C8_Witness ==
    /\ lo = IndentLevel
    /\ st[IndentLevel] = "raised"
    /\ Len(levels) > 1
    /\ taken >= 1
    /\ token_level(input[taken].value) \in 1..(levels[Len(levels)] - 1)

\* C9: break_line_pass emits one line token per physical line, terminator
\* kept, at (row, 0) in row order, then exactly one eof token; eof is at
\* (last_row + 1, 0) when the source ends with a line terminator ("\n" or a
\* lone "\r") and at (last_row, length of the last line) otherwise.
C9_EofAfterAnyTerminator ==
    (lo = BreakLine /\ hi = BreakLine /\ source # <<>> /\ st[BreakLine] # "running") =>
        LET lines == splitlines(source)
            n == Len(lines)
        IN /\ st[BreakLine] = "returned"
           /\ Len(out) = n + 1
           /\ \A i \in 1..n : out[i] = Token("line", <<i - 1, 0>>, lines[i])
           /\ out[n + 1].kind = "eof"
           /\ out[n + 1].position =
                  IF source[Len(source)] \in LineBreaks
                  THEN <<n, 0>> ELSE <<n - 1, Len(lines[n])>>

\* C10: lexical_parse yields tokens in source order: positions never
\* decrease from one token to the next, and they strictly increase between
\* tokens other than open_level, close_level and eof; the rest of the line
\* after a string that spans lines comes after the string token and before
\* the tokens of the next physical line.
C10_SourceOrder ==
    (lo = BreakLine /\ hi = SplitWord) =>
        /\ \A i \in 1..(Len(out) - 1) :
               ~PosLess(out[i + 1].position, out[i].position)
        /\ \A i, j \in 1..Len(out) :
               (i < j /\ out[i].kind \notin Structural /\ out[j].kind \notin Structural)
                   => PosLess(out[i].position, out[j].position)

\* a string spanning two rows, then the rest of its last row, then a token
\* of the next row
C10_Witness ==
    /\ lo = BreakLine /\ hi = SplitWord
    /\ \E i \in 1..(Len(out) - 2) :
           /\ out[i].kind = "string"
           /\ \E j \in 1..Len(out[i].value) : out[i].value[j] = "\n"
           /\ out[i + 1].kind = "name"
           /\ out[i + 1].position[1] = out[i].position[1] + 1
           /\ out[i + 2].kind = "name"
           /\ out[i + 2].position[1] = out[i].position[1] + 2


\* the offset in the source of position <<row, col>>
RECURSIVE LineStart(_, _)
LineStart(lines, r) ==
    IF r = 0 THEN 0 ELSE LineStart(lines, r - 1) + Len(lines[r])
FlatOffset(position) ==
    LineStart(splitlines(source), position[1]) + position[2]

\* the value of token t is the source text that starts at its position; a
\* line token stays within its row and a string token follows a quote
AtOwnPosition(t) ==
    LET lines == splitlines(source)
        off == FlatOffset(t.position)
    IN /\ t.position[1] < Len(lines)
       /\ t.position[2] <= Len(lines[t.position[1] + 1])
       /\ off + Len(t.value) <= Len(source)
       /\ SubSeq(source, off + 1, off + Len(t.value)) = t.value
       /\ t.kind = "line" =>
              t.position[2] + Len(t.value) <= Len(lines[t.position[1] + 1])
       /\ t.kind = "string" => (off >= 1 /\ source[off] = "\"")

\* C11: every line and string token the first four passes produce is at the
\* source (row, column) of the first character of its value (a string
\* token: right after its opening quote, also when it spans rows), and the
\* line fragment after a closing quote is on the closing quote's row, one
\* column after the closing quote.
C11_OriginalPositions ==
    (lo = BreakLine /\ hi = IndentLevel) =>
        /\ \A k \in BreakLine..IndentLevel : \A i \in 1..Len(q[k]) :
               q[k][i].kind \in {"line", "string"} => AtOwnPosition(q[k][i])
        /\ \A i \in 1..(Len(q[StringLiteral]) - 1) :
               LET t == q[StringLiteral][i]
                   u == q[StringLiteral][i + 1]
                   closing == FlatOffset(t.position) + Len(t.value)
               IN (t.kind = "string" /\ u.kind = "line") =>
                      /\ FlatOffset(u.position) = closing + 1
                      /\ LineStart(splitlines(source), u.position[1]) <= closing

\* a string spanning two rows came out, followed by the rest of its last row
C11_Witness ==
    /\ lo = BreakLine /\ hi = IndentLevel
    /\ \E i \in 1..(Len(out) - 1) :
           /\ out[i].kind = "string"
           /\ \E j \in 1..Len(out[i].value) : out[i].value[j] = "\n"
           /\ out[i + 1].kind = "line"
           /\ out[i + 1].position[1] = out[i].position[1] + 1
           /\ out[i + 1].position[2] > 0


\* the column of the first character of text, text starting at column off,
\* at which no word rule matches, or -1 when every word matches
RECURSIVE unmatched_column(_, _)
unmatched_column(text, off) ==
    LET ws == leading(text, Whitespace)
        rest == From(text, ws)
    IN IF rest = <<>> THEN -1
       ELSE IF match_word(rest).token_length < 0 THEN off + ws
       ELSE unmatched_column(From(rest, match_word(rest).token_length),
                             off + ws + match_word(rest).token_length)

\* C14: when no word rule matches at some point of a line token at (row, c),
\* split_word_pass raises LexError at the source position of the first
\* unmatched character, counting the words and the whitespace before it; the
\* words before it have been emitted and nothing is emitted afterwards.
\* Stated for lines that neither start nor end with whitespace.
C14_ErrorAtUnmatched ==
    (/\ lo = SplitWord /\ taken >= 1
     /\ strip(input[1].value) = input[1].value
     /\ unmatched_column(input[1].value, input[1].position[2]) >= 0) =>
        LET line == input[1]
        IN /\ st[SplitWord] = "raised"
           /\ exc[SplitWord] =
                  LexError(<<line.position[1],
                             unmatched_column(line.value, line.position[2])>>)
           /\ Len(out) = Len(word_columns(line.value, line.position[2]))
           /\ \A i \in 1..Len(out) : out[i].kind # "eof"

\* the text a token list stands for: the value of each line token and, for
\* each string token, its value between two quotes
RECURSIVE Rejoin(_)
Rejoin(toks) ==
    IF toks = <<>> THEN <<>>
    ELSE LET t == Head(toks)
         IN (IF t.kind = "line" THEN t.value
             ELSE IF t.kind = "string" THEN <<"\"">> \o t.value \o <<"\"">>
             ELSE <<>>) \o Rejoin(Tail(toks))

\* C15: for every source on which string_literal_pass returns without
\* raising, the values of its line tokens and the quoted values of its string
\* tokens, concatenated in output order, are the source text.
C15_RoundTrip ==
    (lo = BreakLine /\ hi = StringLiteral /\ st[StringLiteral] = "returned") =>
        Rejoin(out) = source

\* the text of a line before its first comment marker
RECURSIVE BeforeMarker(_)
BeforeMarker(value) ==
    IF value = <<>> \/ Head(value) = ";" THEN <<>>
    ELSE <<Head(value)>> \o BeforeMarker(Tail(value))

\* a token comment_pass lets through: every token that is no line, and every
\* line with something other than whitespace before its first marker
Survives(t) ==
    t.kind # "line" \/ \E i \in 1..Len(BeforeMarker(t.value)) :
                           BeforeMarker(t.value)[i] \notin Whitespace

\* C16: the output of comment_pass is, in input order, one token for each
\* input token that is no line or has text other than whitespace before its
\* first ';', and none for the other lines; a token that is no line is output
\* unchanged; an output line token keeps the position of its input token and
\* its value is a start of that token's value that is non-empty, not all
\* whitespace, without trailing whitespace and without ';'.
C16_CommentStripped ==
    (lo = Comment /\ hi = Comment) =>
        LET surviving == SelectSeq(SubSeq(input, 1, taken), Survives)
        IN /\ Len(out) = Len(surviving)
           /\ \A i \in 1..Len(out) :
                  IF surviving[i].kind # "line" THEN out[i] = surviving[i]
                  ELSE /\ out[i].kind = "line"
                       /\ out[i].position = surviving[i].position
                       /\ startswith(surviving[i].value, out[i].value)
                       /\ out[i].value # <<>>
                       /\ \E j \in 1..Len(out[i].value) : out[i].value[j] \notin Whitespace
                       /\ Last(out[i].value) \notin Whitespace
                       /\ \A j \in 1..Len(out[i].value) : out[i].value[j] # ";"

C16_Witness ==
    /\ lo = Comment /\ hi = Comment
    /\ st[Comment] = "returned"
    /\ input[1].value = <<" ", ";", "a">>
    /\ input[3].value = <<"a", " ", ";">>
    /\ Len(out) = 3
    /\ out[1] = input[2]
    /\ out[2] = Token("line", <<1, 0>>, <<"a">>)
    /\ out[3].kind = "eof"

\* the line tokens among the first n input tokens
LinesHandled(n) == SelectSeq(SubSeq(input, 1, n), LAMBDA t : t.kind = "line")

\* the level stack is non-empty, starts at 0, increases strictly, ends at the
\* width of the last of the line tokens handled, and holds one level above 0
\* for each open_level without its close_level among toks
StackInvariant(lvls, handled, toks) ==
    /\ lvls # <<>>
    /\ lvls[1] = 0
    /\ \A i \in 1..(Len(lvls) - 1) : lvls[i] < lvls[i + 1]
    /\ handled # <<>> => Last(lvls) = token_level(Last(handled).value)
    /\ Len(lvls) - 1 = Count(toks, "open_level") - Count(toks, "close_level")

IsFragment(token) == token.kind = "line" /\ token.position[2] > 0

\* C18: in the composition of the first four passes, when indent_level_pass
\* handles the fragment of a line that follows a string literal on the same
\* row, it emits no open_level and no close_level, leaves its level stack as
\* it is and raises no error.
C18_FragmentsKeepLevels ==
    [][(/\ lo = BreakLine /\ hi = IndentLevel
        /\ q[Comment] # <<>>
        /\ Len(q'[Comment]) = Len(q[Comment]) - 1
        /\ IsFragment(Head(q[Comment]))) =>
          /\ levels' = levels
          /\ st'[IndentLevel] = "running"
          /\ Count(out', "open_level") = Count(out, "open_level")
          /\ Count(out', "close_level") = Count(out, "close_level")]_vars

\* ------------------------------------------------------------ TokenWalker claims
\* the upstream tokens forward() has not discarded
Unconsumed == SubSeq(input, discarded + 1, Len(input))
Max(a, b) == IF a >= b THEN a ELSE b
Min(a, b) == IF a <= b THEN a ELSE b

\* C12: lookahead(n) returns the n-th upstream token not yet discarded
\* (0-based), whenever there is one, and discards nothing; a forward() that
\* returns discards exactly the front token: after every call the buffer is
\* the run of upstream tokens after the discarded ones, so the tokens met at
\* lookahead(0) between forward() calls are the upstream tokens in order.
C12_LookaheadNth ==
    [][/\ (call'.op = "lookahead" /\ call'.arg < Len(Unconsumed)) =>
              /\ result' = Returned(Unconsumed[call'.arg + 1])
              /\ discarded' = discarded
       /\ (call'.op = "forward" /\ result'.type = "None") =>
              /\ Unconsumed # <<>>
              /\ discarded' = discarded + 1
       /\ buffer' = SubSeq(input, discarded' + 1, taken')]_vars

C12_Witness ==
    /\ call.op = "lookahead" /\ call.arg = 1
    /\ discarded = 1
    /\ Len(input) = 3
    /\ result = Returned(input[3])

\* C13: forward(expect_kind) on a walker that still has a front token: when
\* expect_kind is given and is not the kind of the front token, ParseError
\* carrying that token is raised, nothing is discarded and a following
\* lookahead(0) finds the same token; when expect_kind is None or is the
\* kind of the front token, exactly the front token is discarded.
C13_ForwardExpect ==
    [][(call'.op = "forward" /\ Unconsumed # <<>>) =>
          LET front == Unconsumed[1]
              expect_kind == call'.expect_kind
          IN IF expect_kind # NoKind /\ expect_kind # front.kind
             THEN /\ result' = ParseError(front)
                  /\ discarded' = discarded
                  /\ fill_buffer(buffer', taken', 0).buffer[1] = front
             ELSE /\ result' = ReturnedNone
                  /\ discarded' = discarded + 1
                  /\ buffer' = SubSeq(input, discarded + 2, taken')]_vars

C13_Witness ==
    /\ call.op = "forward" /\ call.expect_kind = "assign"
    /\ discarded = 1
    /\ Len(input) >= 2 /\ input[2].kind = "name"
    /\ result = ParseError(input[2])
    /\ buffer # <<>> /\ buffer[1] = input[2]

\* C19 as stated: the tokens pulled are the discarded ones plus the buffered
\* ones; lookahead(n) pulls exactly max(0, n + 1 - buffer length) tokens;
\* forward() pulls one token only when the buffer is empty.
C19_PullsExactly ==
    [][/\ taken' = discarded' + Len(buffer')
       /\ call'.op = "lookahead" =>
              taken' - taken = Max(0, call'.arg + 1 - Len(buffer))
       /\ call'.op = "forward" =>
              /\ taken' - taken \in {0, 1}
              /\ buffer # <<>> => taken' = taken]_vars

\* C19 amended: the tokens pulled are the discarded ones plus the buffered
\* ones; lookahead(n) pulls max(0, n + 1 - buffer length) tokens when the
\* upstream still has that many, and otherwise pulls all that remain and
\* raises StopIteration; forward() pulls one token when the buffer is empty
\* and the upstream has one, and none otherwise.
C19_PullsOnDemand ==
    [][/\ taken' = discarded' + Len(buffer')
       /\ call'.op = "lookahead" =>
              LET demand == Max(0, call'.arg + 1 - Len(buffer))
                  remaining == Len(input) - taken
              IN /\ taken' - taken = Min(demand, remaining)
                 /\ (demand > remaining) <=> (result' = StopIteration)
       /\ call'.op = "forward" =>
              taken' - taken = IF buffer = <<>> /\ taken < Len(input) THEN 1 ELSE 0]_vars

C19_Witness ==
    /\ call.op = "lookahead" /\ call.arg = 2
    /\ discarded = 0
    /\ Len(input) = 3 /\ taken = 3 /\ Len(buffer) = 3
    /\ result = Returned(input[3])

====
